---- MODULE Spec2Model ----
(***************************************************************************)
(* A model of github-action-paths-filter (src/main.py).                    *)
(*                                                                         *)
(* Strings the program inspects character by character (glob patterns,     *)
(* paths, lines of the filter declaration) are sequences of one-character  *)
(* strings.  Opaque identifiers (commit ids, event names) are strings.     *)
(* A regular expression is the sequence of the fragments glob_to_regex     *)
(* concatenates; Match interprets the fragments the way re.match does.     *)
(***************************************************************************)
EXTENDS Integers, Sequences, FiniteSets, TLC

(***************************************************************************)
(* Bounds of the model.                                                    *)
(***************************************************************************)
\* longest path handed to a compiled pattern in GlobSpec
MaxPathLen == 5
\* most segments of a pattern built from `**` and literal segments in GlobSpec
MaxSegs == 4
\* longest pattern drawn character by character in GlobSpec
MaxWildLen == 3

(***************************************************************************)
(* Strings as sequences of characters.                                     *)
(***************************************************************************)
\* all sequences over S of length 0..n
SeqsUpTo(S, n) == UNION { [1..k -> S] : k \in 0..n }

\* str.split('/'): the maximal runs between separators, empty runs included
RECURSIVE Split(_)
Split(s) ==
  IF \A k \in 1..Len(s) : s[k] # "/"
    THEN << s >>
    ELSE LET i == CHOOSE k \in 1..Len(s) :
                    /\ s[k] = "/"
                    /\ \A m \in 1..(k - 1) : s[m] # "/"
         IN  << SubSeq(s, 1, i - 1) >> \o Split(SubSeq(s, i + 1, Len(s)))

\* sep.join(segs)
RECURSIVE JoinWith(_, _)
JoinWith(segs, sep) ==
  IF segs = << >> THEN << >>
  ELSE IF Len(segs) = 1 THEN segs[1]
  ELSE segs[1] \o << sep >> \o JoinWith(Tail(segs), sep)

\* '/'.join(segs)
Join(segs) == JoinWith(segs, "/")

\* number of '/' in s
CountSlash(s) == Cardinality({ k \in 1..Len(s) : s[k] = "/" })

(***************************************************************************)
(* glob_to_regex, src/main.py lines 93-136.                                *)
(***************************************************************************)
\* the placeholder the first loop stores for a `**` segment
RECURSIVE_MARK == << "__RECURSIVE__" >>

\* the characters re.escape puts a backslash before
RegexSpecialChars ==
  { "(", ")", "[", "]", "{", "}", "?", "*", "+", "-", "|", "^", "$", "\\", ".",
    "&", "~", "#", " ", "\t", "\n", "\r" }

\* re.escape(c), line 114
re_escape(c) == IF c \in RegexSpecialChars THEN "\\" \o c ELSE c

\* lines 107-114: one character of a non-recursive segment
TranslateChar(c) ==
  IF c = "*" THEN "[^/]*"
  ELSE IF c = "?" THEN "."
  ELSE re_escape(c)

\* lines 103-115: the first loop, one entry of regex_parts per segment
TranslatePart(part) ==
  IF part = << "*", "*" >>
    THEN RECURSIVE_MARK
    ELSE [ k \in 1..Len(part) |-> TranslateChar(part[k]) ]

\* lines 118-134: what the second loop appends to res for entry i
Fragment(regex_parts, i) ==
  LET n == Len(regex_parts) IN
  IF regex_parts[i] = RECURSIVE_MARK
    THEN IF i = 1
           THEN IF i < n THEN << "(?:.*/)?" >> ELSE << ".*" >>
           ELSE IF i = n THEN << "(?:/.*)?" >> ELSE << "(?:/.*)?", "/" >>
    ELSE (IF i > 1 /\ regex_parts[i - 1] # RECURSIVE_MARK
            THEN << "/" >> ELSE << >>) \o regex_parts[i]

RECURSIVE Assemble(_, _)
Assemble(regex_parts, i) ==
  IF i > Len(regex_parts) THEN << >>
  ELSE Fragment(regex_parts, i) \o Assemble(regex_parts, i + 1)

\* the fragments between '^' and '$' of the compiled expression
glob_to_regex(pattern) ==
  LET parts == Split(pattern)
      regex_parts == [ i \in 1..Len(parts) |-> TranslatePart(parts[i]) ]
  IN  Assemble(regex_parts, 1)

(***************************************************************************)
(* regex.match(file) for an expression '^' res '$' made of the fragments   *)
(* above (line 136, line 246).  MatchFrom(res, s, i, j): fragments i..     *)
(* can consume exactly the characters j.. of s.  The alphabets hold no     *)
(* line break, so '.' takes any character and '$' is the end of s.         *)
(***************************************************************************)
RECURSIVE MatchFrom(_, _, _, _)
MatchFrom(res, s, i, j) ==
  IF i > Len(res) THEN j = Len(s) + 1
  ELSE LET f == res[i] IN
    IF f = "[^/]*" THEN
         \/ MatchFrom(res, s, i + 1, j)
         \/ (j <= Len(s) /\ s[j] # "/" /\ MatchFrom(res, s, i, j + 1))
    ELSE IF f = ".*" THEN
         \E k \in j..(Len(s) + 1) : MatchFrom(res, s, i + 1, k)
    ELSE IF f = "." THEN
         j <= Len(s) /\ MatchFrom(res, s, i + 1, j + 1)
    ELSE IF f = "(?:.*/)?" THEN
         \/ MatchFrom(res, s, i + 1, j)
         \/ \E k \in j..Len(s) : s[k] = "/" /\ MatchFrom(res, s, i + 1, k + 1)
    ELSE IF f = "(?:/.*)?" THEN
         \/ MatchFrom(res, s, i + 1, j)
         \/ (j <= Len(s) /\ s[j] = "/"
               /\ \E k \in (j + 1)..(Len(s) + 1) : MatchFrom(res, s, i + 1, k))
    ELSE \* a literal: one character, an escaped one after its backslash
         j <= Len(s)
         /\ (f = s[j] \/ f = "\\" \o s[j])
         /\ MatchFrom(res, s, i + 1, j + 1)

Match(res, s) == MatchFrom(res, s, 1, 1)

(***************************************************************************)
(* What the specification says a pattern accepts: `**` stands for zero or  *)
(* more complete path segments, every other segment for itself.            *)
(***************************************************************************)
RECURSIVE ExpandsTo(_, _)
ExpandsTo(psegs, fsegs) ==
  IF psegs = << >> THEN fsegs = << >>
  ELSE IF Head(psegs) = << "*", "*" >>
    THEN \E k \in 0..Len(fsegs) :
           ExpandsTo(Tail(psegs), SubSeq(fsegs, k + 1, Len(fsegs)))
    ELSE /\ fsegs # << >>
         /\ Head(fsegs) = Head(psegs)
         /\ ExpandsTo(Tail(psegs), Tail(fsegs))

\* every segment is `**` or holds no wildcard
IsRecursiveLiteral(pattern) ==
  \A i \in 1..Len(Split(pattern)) :
     \/ Split(pattern)[i] = << "*", "*" >>
     \/ \A k \in 1..Len(Split(pattern)[i]) : Split(pattern)[i][k] \notin { "*", "?" }

\* no segment is `**`
HasNoRecursiveSegment(pattern) ==
  \A i \in 1..Len(Split(pattern)) : Split(pattern)[i] # << "*", "*" >>

\* two `**` segments next to each other
HasAdjacentRecursive(pattern) ==
  \E i \in 1..(Len(Split(pattern)) - 1) :
     Split(pattern)[i] = << "*", "*" >> /\ Split(pattern)[i + 1] = << "*", "*" >>

(***************************************************************************)
(* Inputs of GlobSpec.                                                     *)
(***************************************************************************)
PathChars == { "a", "b", "/" }
GlobPaths == SeqsUpTo(PathChars, MaxPathLen)

RecursiveSegs == { << "*", "*" >>, << "a" >>, << "b" >> }
RecursivePatterns ==
  { Join(segs) : segs \in (SeqsUpTo(RecursiveSegs, MaxSegs) \ { << >> }) }
WildPatterns == SeqsUpTo({ "a", "b", "*", "?", "/" }, MaxWildLen)
GlobPatterns == RecursivePatterns \cup WildPatterns

(***************************************************************************)
(* Values of the orchestrator, src/main.py lines 177-271.                  *)
(***************************************************************************)
\* most lines the diff provider prints in Spec
MaxChanged == 2

\* Python's None
None == "None"
\* bool(x) of a string or None
Truthy(x) == x \notin { None, "" }

\* line 208
NULL_SHA == "0000000000000000000000000000000000000000"
\* line 76
EMPTY_TREE == "4b825dc642cb6eb9a060e54bf8d69288fbee4904"

\* str.strip() and the tests the declaration parsers make on a line
IsSpace(c) == c \in { " ", "\t", "\n", "\r" }
RECURSIVE LStrip(_)
LStrip(s) == IF s # << >> /\ IsSpace(Head(s)) THEN LStrip(Tail(s)) ELSE s
RECURSIVE RStrip(_)
RStrip(s) ==
  IF s # << >> /\ IsSpace(s[Len(s)]) THEN RStrip(SubSeq(s, 1, Len(s) - 1)) ELSE s
Strip(s) == RStrip(LStrip(s))
StartsWith(s, p) == Len(s) >= Len(p) /\ SubSeq(s, 1, Len(p)) = p
EndsWith(s, p) == Len(s) >= Len(p) /\ SubSeq(s, Len(s) - Len(p) + 1, Len(s)) = p

(***************************************************************************)
(* The filters input.  A document is either the text of a JSON object      *)
(* (fmt "json": obj is what json.loads returns for it, the pairs in        *)
(* document order) or plain text (fmt "text": its lines).                  *)
(***************************************************************************)
\* the text of a document given by its lines
Text(lines) == JoinWith(lines, "\n")

Str(cs) == [ type |-> "str", val |-> << cs >> ]
List(ps) == [ type |-> "list", val |-> ps ]
JsonDoc(obj) == [ fmt |-> "json", obj |-> obj, lines |-> << >> ]
TextDoc(lines) == [ fmt |-> "text", obj |-> << >>, lines |-> lines ]

\* INPUT_FILTERS unset: os.environ.get("INPUT_FILTERS", "")
NoFiltersInput == TextDoc(<< >>)
\* a blank input
BlankFiltersInput == TextDoc(<< << " ", " " >> >>)
\* {}
EmptyObjectInput == JsonDoc(<< >>)
\* {"f": ["b*", "a*"]}
PatternOrderInput ==
  JsonDoc(<< [ name |-> << "f" >>, value |-> List(<< << "b", "*" >>, << "a", "*" >> >>) ] >>)
\* {"f": "a/**", "g": ["**", "a*"]}
TwoFiltersInput ==
  JsonDoc(<< [ name |-> << "f" >>, value |-> Str(<< "a", "/", "*", "*" >>) ],
             [ name |-> << "g" >>, value |-> List(<< << "*", "*" >>, << "a", "*" >> >>) ] >>)
\* f:
\*   - 'b'
\*   - a?b
YamlInput ==
  TextDoc(<< << "f", ":" >>,
             << " ", " ", "-", " ", "'", "b", "'" >>,
             << " ", " ", "-", " ", "a", "?", "b" >> >>)

FiltersInputs ==
  { NoFiltersInput, BlankFiltersInput, EmptyObjectInput, PatternOrderInput,
    TwoFiltersInput, YamlInput }

\* `not filters_input`, line 184: the empty string
IsEmptyString(doc) == doc.fmt = "text" /\ Text(doc.lines) = << >>

\* filters_input.strip().startswith('{'), lines 145-146
StartsWithBrace(doc) ==
  \/ doc.fmt = "json"
  \/ doc.fmt = "text" /\ StartsWith(Strip(Text(doc.lines)), << "{" >>)

\* a dict as the sequence of its items in insertion order
Dict(items) == [ kind |-> "dict", items |-> items ]
NoneValue == [ kind |-> "none", items |-> << >> ]

\* d[k] = v: replaces the value of an existing key in place, else appends
DictSet(items, k, v) ==
  IF \E i \in 1..Len(items) : items[i].name = k
    THEN [ i \in 1..Len(items) |->
             IF items[i].name = k THEN [ name |-> k, value |-> v ] ELSE items[i] ]
    ELSE Append(items, [ name |-> k, value |-> v ])

\* d[k].append(x)
DictAppend(items, k, x) ==
  [ i \in 1..Len(items) |->
      IF items[i].name = k
        THEN [ name |-> k, value |-> List(Append(items[i].value.val, x)) ]
        ELSE items[i] ]

\* lines 170-173: the value of a list item, its quotes removed
ItemValue(line) ==
  LET val == Strip(SubSeq(line, 3, Len(line))) IN
  IF \/ (StartsWith(val, << "\"" >>) /\ EndsWith(val, << "\"" >>))
     \/ (StartsWith(val, << "'" >>) /\ EndsWith(val, << "'" >>))
    THEN SubSeq(val, 2, Len(val) - 1)
    ELSE val

\* lines 160-175: the fallback reader, from line k with the dict built so far
RECURSIVE FallbackFrom(_, _, _, _)
FallbackFrom(lines, k, items, current_key) ==
  IF k > Len(lines) THEN items
  ELSE LET line == Strip(lines[k]) IN
    IF line = << >> \/ StartsWith(line, << "#" >>)
      THEN FallbackFrom(lines, k + 1, items, current_key)
    ELSE IF EndsWith(line, << ":" >>)
      THEN LET key == Strip(SubSeq(line, 1, Len(line) - 1)) IN
           FallbackFrom(lines, k + 1, DictSet(items, key, List(<< >>)), key)
    ELSE IF StartsWith(line, << "-", " " >>) /\ current_key # << >>
      THEN FallbackFrom(lines, k + 1,
                        DictAppend(items, current_key, ItemValue(line)), current_key)
    ELSE FallbackFrom(lines, k + 1, items, current_key)

fallback_parser(lines) == Dict(FallbackFrom(lines, 1, << >>, << >>))

\* lines 154-155, yaml.safe_load of the library: None for a document with no
\* content; for the block mappings of lists drawn here, the mapping the
\* fallback reader builds too
yaml_safe_load(lines) ==
  IF \A k \in 1..Len(lines) :
       Strip(lines[k]) = << >> \/ StartsWith(Strip(lines[k]), << "#" >>)
    THEN NoneValue
    ELSE fallback_parser(lines)

\* lines 138-175
parse_filters(doc, yaml_ok) ==
  IF StartsWithBrace(doc) /\ doc.fmt = "json"
    THEN Dict(doc.obj)
    ELSE IF yaml_ok THEN yaml_safe_load(doc.lines)
         ELSE fallback_parser(doc.lines)

(***************************************************************************)
(* The event payload, lines 82-91 and 196-213: the three values main       *)
(* reads from it, None where the key (or the event file) is missing.       *)
(***************************************************************************)
Payload(b, h, before) == [ pr_base_sha |-> b, pr_head_sha |-> h, before |-> before ]
Payloads ==
  { Payload(None, None, None),
    Payload("pr_base", "pr_head", None),
    Payload(None, None, NULL_SHA),
    Payload(None, None, "before_sha") }
EventNames == { "pull_request", "push", "workflow_dispatch" }

\* a faulty variant of ResolveBase: an explicit base wins over the payload
ResolveBase_ExplicitWins(name, payload, in_base) ==
  IF Truthy(in_base) THEN in_base
  ELSE IF name = "pull_request" THEN payload.pr_base_sha
  ELSE IF name = "push" /\ Truthy(payload.before) /\ payload.before # NULL_SHA
    THEN payload.before
  ELSE in_base

\* lines 193-210: the base handed to get_commits
ResolveBase(name, payload, in_base) ==
  IF name = "pull_request" THEN payload.pr_base_sha
  ELSE IF name = "push" /\ ~Truthy(in_base)
            /\ Truthy(payload.before) /\ payload.before # NULL_SHA
    THEN payload.before
  ELSE in_base

\* a faulty variant of ResolveRef: a push ignores the explicit ref
ResolveRef_PushIgnoresInput(name, payload, in_ref, sha) ==
  IF name = "pull_request" THEN payload.pr_head_sha
  ELSE IF name = "push" THEN sha
  ELSE in_ref

\* lines 194-213: the ref handed to get_commits
ResolveRef(name, payload, in_ref, sha) ==
  IF name = "pull_request" THEN payload.pr_head_sha
  ELSE IF name = "push" /\ ~Truthy(in_ref) THEN sha
  ELSE in_ref

(***************************************************************************)
(* get_commits, lines 39-80.                                               *)
(***************************************************************************)
\* what `git merge-base` prints when it succeeds
MERGE_BASE == "merge_base_sha"

\* the lines `git diff --name-only` may print
PrintedLines == { << "a" >>, << "b" >>, << "a", "/", "b" >>, << " " >> }
DiffOutputs == SeqsUpTo(PrintedLines, MaxChanged)

\* line 80: [line.strip() for line in output.splitlines() if line.strip()]
RECURSIVE ParseDiffOutput(_)
ParseDiffOutput(lines) ==
  IF lines = << >> THEN << >>
  ELSE IF Strip(Head(lines)) # << >>
    THEN << Strip(Head(lines)) >> \o ParseDiffOutput(Tail(lines))
    ELSE ParseDiffOutput(Tail(lines))

\* longest output of git diff --name-only drawn in DiffSpec
MaxStdoutLen == 5

\* str.splitlines() of a text whose only line break is "\n"
RECURSIVE SplitLines(_)
SplitLines(text) ==
  IF text = << >> THEN << >>
  ELSE IF \A k \in 1..Len(text) : text[k] # "\n" THEN << text >>
  ELSE LET i == CHOOSE k \in 1..Len(text) :
                  /\ text[k] = "\n"
                  /\ \A m \in 1..(k - 1) : text[m] # "\n"
       IN  << SubSeq(text, 1, i - 1) >> \o SplitLines(SubSeq(text, i + 1, Len(text)))

\* line 34: run_command returns result.stdout.strip()
run_command(stdout) == Strip(stdout)

\* lines 79-80: the list get_commits returns when the diff wrote stdout
ChangedFilesOf(stdout) == ParseDiffOutput(SplitLines(run_command(stdout)))

GitCall(cmd, args, ok) == [ cmd |-> cmd, args |-> args, ok |-> ok ]

(***************************************************************************)
(* Filter evaluation, lines 230-252.                                       *)
(***************************************************************************)
\* lines 231-232
PatternList(value) == value.val

\* a faulty variant of AppendUnique: no membership test
AppendUnique_NoTest(matched, file) == Append(matched, file)

\* lines 247-248
AppendUnique(matched, file) ==
  IF \E k \in 1..Len(matched) : matched[k] = file THEN matched
  ELSE Append(matched, file)

\* lines 245-248: the inner loop over changed_files for one pattern
RECURSIVE ScanFiles(_, _, _, _)
ScanFiles(regex, files, k, matched) ==
  IF k > Len(files) THEN matched
  ELSE ScanFiles(regex, files, k + 1,
                 IF Match(regex, files[k]) THEN AppendUnique(matched, files[k])
                 ELSE matched)

\* lines 237-248: the outer loop over the filter's patterns
RECURSIVE ScanPatterns(_, _, _, _)
ScanPatterns(patterns, files, i, matched) ==
  IF i > Len(patterns) THEN matched
  ELSE ScanPatterns(patterns, files, i + 1,
                    ScanFiles(glob_to_regex(patterns[i]), files, 1, matched))

MatchedFiles(patterns, files) == ScanPatterns(patterns, files, 1, << >>)

\* lines 234, 249
IsMatch(patterns, files) ==
  \E i \in 1..Len(patterns) : \E k \in 1..Len(files) :
     Match(glob_to_regex(patterns[i]), files[k])

\* one set_output call, lines 12-19: the output's name is filter \o suffix
Output(filter, suffix, flag, count, files) ==
  [ filter |-> filter, suffix |-> suffix, flag |-> flag, count |-> count,
    files |-> files ]

ListFormats == { "json", "csv", "shell", "escape" }

\* lines 251-269: the outputs of one filter
FilterOutputs(name, is_m, matched, fmt) ==
  << Output(name, "", IF is_m THEN "true" ELSE "false", -1, << >>),
     Output(name, "_count", "", Len(matched), << >>) >>
  \o (IF fmt # "none" /\ matched # << >> /\ fmt \in ListFormats
        THEN << Output(name, "_files", fmt, -1, matched) >>
        ELSE << >>)

VARIABLES
  glob_pc, glob_pattern, glob_path, glob_regex, glob_accepted,
  diff_pc,            \* where DiffSpec is
  diff_stdout,        \* what git diff --name-only wrote, line 30
  diff_returned,      \* what get_commits returns for it, line 80
  pc,                 \* where main is
  filters_input, input_base, input_ref, list_files_format,   \* lines 178-182
  event, event_name, GITHUB_SHA,                              \* lines 190-191, 213
  yaml_installed,     \* whether `import yaml` succeeds, line 154
  head_has_parent,    \* whether HEAD^ resolves in the repository
  base, ref,          \* lines 193-213
  filters,            \* line 217
  git_calls,          \* the git commands run so far, in order
  cmd,                \* the arguments of the diff get_commits chose
  changed_files,      \* line 221
  position,           \* index of the next item of filters.items(), line 230
  is_match, matched_files,   \* lines 234-235, of the filter evaluated last
  changes,            \* line 227
  outputs,            \* the set_output calls so far
  error_message,      \* the ::error:: line printed, lines 185 and 224
  traceback,          \* the exception an aborted run dies of
  exit_status         \* -1 while running

glob_vars == << glob_pc, glob_pattern, glob_path, glob_regex, glob_accepted >>

input_vars ==
  << filters_input, input_base, input_ref, list_files_format, event, event_name,
     GITHUB_SHA, yaml_installed, head_has_parent >>

main_vars ==
  << pc, base, ref, filters, git_calls, cmd, changed_files, position, is_match,
     matched_files, changes, outputs, error_message, traceback, exit_status >>

diff_vars == << diff_pc, diff_stdout, diff_returned >>

vars == << glob_vars, diff_vars, input_vars, main_vars >>

\* main has not started
MainIdle ==
  /\ pc = "idle"
  /\ filters_input = NoFiltersInput
  /\ input_base = "" /\ input_ref = "" /\ list_files_format = "none"
  /\ event = Payload(None, None, None) /\ event_name = "" /\ GITHUB_SHA = None
  /\ yaml_installed = FALSE /\ head_has_parent = FALSE
  /\ base = "" /\ ref = "" /\ filters = NoneValue
  /\ git_calls = << >> /\ cmd = << >> /\ changed_files = << >>
  /\ position = 0 /\ is_match = FALSE /\ matched_files = << >>
  /\ changes = << >> /\ outputs = << >>
  /\ error_message = "" /\ traceback = "" /\ exit_status = -1

GlobIdle ==
  /\ glob_pc = "idle"
  /\ glob_pattern = << >>
  /\ glob_path = << >>
  /\ glob_regex = << >>
  /\ glob_accepted = FALSE

\* no output of git diff is being read
DiffIdle ==
  /\ diff_pc = "idle"
  /\ diff_stdout = << >>
  /\ diff_returned = << >>

GlobInit ==
  /\ MainIdle
  /\ DiffIdle
  /\ glob_pc = "compile"
  /\ glob_pattern \in GlobPatterns
  /\ glob_path \in GlobPaths
  /\ glob_regex = << >>
  /\ glob_accepted = FALSE

\* regex = glob_to_regex(pattern)
Compile ==
  /\ glob_pc = "compile"
  /\ glob_regex' = glob_to_regex(glob_pattern)
  /\ glob_pc' = "match"
  /\ UNCHANGED << glob_pattern, glob_path, glob_accepted, diff_vars, input_vars,
                  main_vars >>

\* bool(regex.match(path))
MatchPath ==
  /\ glob_pc = "match"
  /\ glob_accepted' = Match(glob_regex, glob_path)
  /\ glob_pc' = "matched"
  /\ UNCHANGED << glob_pattern, glob_path, glob_regex, diff_vars, input_vars,
                  main_vars >>

GlobNext == Compile \/ MatchPath

GlobSpec == GlobInit /\ [][GlobNext]_vars


(***************************************************************************)
(* main, lines 177-271, one action per step of it.                         *)
(***************************************************************************)
ExplicitBases == { "", "wrong_base" }
ExplicitRefs == { "", "input_ref" }
CurrentCommits == { None, "github_sha" }
ListFilesInputs == { "none", "csv" }

Init ==
  /\ GlobIdle
  /\ DiffIdle
  /\ pc = "check_filters"
  /\ filters_input \in FiltersInputs
  /\ input_base \in ExplicitBases
  /\ input_ref \in ExplicitRefs
  /\ list_files_format \in ListFilesInputs
  /\ event \in Payloads
  /\ event_name \in EventNames
  /\ GITHUB_SHA \in CurrentCommits
  /\ yaml_installed \in BOOLEAN
  /\ head_has_parent \in BOOLEAN
  /\ base = "" /\ ref = "" /\ filters = NoneValue
  /\ git_calls = << >> /\ cmd = << >> /\ changed_files = << >>
  /\ position = 0 /\ is_match = FALSE /\ matched_files = << >>
  /\ changes = << >> /\ outputs = << >>
  /\ error_message = "" /\ traceback = "" /\ exit_status = -1

\* sys.exit(1) after an ::error:: line
ExitWithError(msg) ==
  /\ error_message' = msg
  /\ exit_status' = 1
  /\ pc' = "exited"

\* lines 184-186
CheckFilters ==
  /\ pc = "check_filters"
  /\ IF IsEmptyString(filters_input)
       THEN ExitWithError("filters input is required")
       ELSE /\ pc' = "resolve"
            /\ UNCHANGED << error_message, exit_status >>
  /\ UNCHANGED << glob_vars, diff_vars, input_vars, base, ref, filters, git_calls, cmd,
                  changed_files, position, is_match, matched_files, changes,
                  outputs, traceback >>

\* lines 190-215
ResolveEvent ==
  /\ pc = "resolve"
  /\ base' = ResolveBase(event_name, event, input_base)
  /\ ref' = ResolveRef(event_name, event, input_ref, GITHUB_SHA)
  /\ pc' = "parse"
  /\ UNCHANGED << glob_vars, diff_vars, input_vars, filters, git_calls, cmd, changed_files,
                  position, is_match, matched_files, changes, outputs,
                  error_message, traceback, exit_status >>

\* line 217
ParseFilters ==
  /\ pc = "parse"
  /\ filters' = parse_filters(filters_input, yaml_installed)
  /\ pc' = "get_commits"
  /\ UNCHANGED << glob_vars, diff_vars, input_vars, base, ref, git_calls, cmd, changed_files,
                  position, is_match, matched_files, changes, outputs,
                  error_message, traceback, exit_status >>

\* lines 49-59: git merge-base succeeds or fails; either way a diff is chosen
ResolveMergeBase ==
  /\ pc = "get_commits"
  /\ Truthy(base) /\ Truthy(ref)
  /\ \E ok \in BOOLEAN :
       /\ git_calls' = Append(git_calls, GitCall("merge-base", << base, ref >>, ok))
       /\ cmd' = IF ok THEN << MERGE_BASE, ref >> ELSE << base, ref >>
  /\ pc' = "run_diff"
  /\ UNCHANGED << glob_vars, diff_vars, input_vars, base, ref, filters, changed_files,
                  position, is_match, matched_files, changes, outputs,
                  error_message, traceback, exit_status >>

\* lines 60-62
DiffAgainstBase ==
  /\ pc = "get_commits"
  /\ Truthy(base) /\ ~Truthy(ref)
  /\ cmd' = << base >>
  /\ pc' = "run_diff"
  /\ UNCHANGED << glob_vars, diff_vars, input_vars, base, ref, filters, git_calls,
                  changed_files, position, is_match, matched_files, changes,
                  outputs, error_message, traceback, exit_status >>

\* a faulty variant of CheckParent: the root commit is not told apart
CheckParent_NoRootCase ==
  /\ pc = "get_commits"
  /\ ~Truthy(base)
  /\ git_calls' = Append(git_calls, GitCall("rev-parse", << "HEAD^" >>, head_has_parent))
  /\ cmd' = << "HEAD^", "HEAD" >>
  /\ pc' = "run_diff"
  /\ UNCHANGED << glob_vars, diff_vars, input_vars, base, ref, filters, changed_files,
                  position, is_match, matched_files, changes, outputs,
                  error_message, traceback, exit_status >>

\* lines 63-77: git rev-parse --verify HEAD^ tells a root commit from the rest
CheckParent ==
  /\ pc = "get_commits"
  /\ ~Truthy(base)
  /\ git_calls' = Append(git_calls, GitCall("rev-parse", << "HEAD^" >>, head_has_parent))
  /\ cmd' = IF head_has_parent THEN << "HEAD^", "HEAD" >> ELSE << EMPTY_TREE, "HEAD" >>
  /\ pc' = "run_diff"
  /\ UNCHANGED << glob_vars, diff_vars, input_vars, base, ref, filters, changed_files,
                  position, is_match, matched_files, changes, outputs,
                  error_message, traceback, exit_status >>

\* a faulty variant of RunDiff: a failed diff counts as no change
RunDiff_SwallowsFailure ==
  /\ pc = "run_diff"
  /\ \/ \E printed \in DiffOutputs :
          /\ git_calls' = Append(git_calls, GitCall("diff", cmd, TRUE))
          /\ changed_files' = ParseDiffOutput(printed)
     \/ /\ git_calls' = Append(git_calls, GitCall("diff", cmd, FALSE))
        /\ changed_files' = << >>
  /\ pc' = "match"
  /\ position' = 1
  /\ UNCHANGED << glob_vars, diff_vars, input_vars, base, ref, filters, cmd, is_match,
                  matched_files, changes, outputs, traceback, error_message,
                  exit_status >>

\* lines 79-80 and 220-225: git diff --name-only prints its lines, or fails
RunDiff ==
  /\ pc = "run_diff"
  /\ \/ \E printed \in DiffOutputs :
          /\ git_calls' = Append(git_calls, GitCall("diff", cmd, TRUE))
          /\ changed_files' = ParseDiffOutput(printed)
          /\ pc' = "match"
          /\ position' = 1
          /\ UNCHANGED << error_message, exit_status >>
     \/ /\ git_calls' = Append(git_calls, GitCall("diff", cmd, FALSE))
        /\ ExitWithError("Failed to get changed files")
        /\ UNCHANGED << changed_files, position >>
  /\ UNCHANGED << glob_vars, diff_vars, input_vars, base, ref, filters, cmd, is_match,
                  matched_files, changes, outputs, traceback >>

\* line 230 when parse_filters returned None: filters.items() raises
IterateNone ==
  /\ pc = "match"
  /\ filters.kind = "none"
  /\ traceback' = "AttributeError"
  /\ exit_status' = 1
  /\ pc' = "crashed"
  /\ UNCHANGED << glob_vars, diff_vars, input_vars, base, ref, filters, git_calls, cmd,
                  changed_files, position, is_match, matched_files, changes,
                  outputs, error_message >>

\* lines 230-269: one pass of the loop over filters.items()
EvaluateFilter ==
  /\ pc = "match"
  /\ filters.kind = "dict"
  /\ position <= Len(filters.items)
  /\ LET filter_name == filters.items[position].name
         patterns == PatternList(filters.items[position].value)
         matched == MatchedFiles(patterns, changed_files)
         is_m == IsMatch(patterns, changed_files)
     IN  /\ matched_files' = matched
         /\ is_match' = is_m
         /\ outputs' = outputs \o FilterOutputs(filter_name, is_m, matched,
                                                list_files_format)
         /\ changes' = IF is_m THEN Append(changes, filter_name) ELSE changes
  /\ position' = position + 1
  /\ UNCHANGED << glob_vars, diff_vars, input_vars, pc, base, ref, filters, git_calls, cmd,
                  changed_files, error_message, traceback, exit_status >>

\* line 271, and the normal end of main
EmitChanges ==
  /\ pc = "match"
  /\ filters.kind = "dict"
  /\ position > Len(filters.items)
  /\ outputs' = Append(outputs, Output(<< "c", "h", "a", "n", "g", "e", "s" >>, "",
                                       "json", -1, changes))
  /\ exit_status' = 0
  /\ pc' = "done"
  /\ UNCHANGED << glob_vars, diff_vars, input_vars, base, ref, filters, git_calls, cmd,
                  changed_files, position, is_match, matched_files, changes,
                  error_message, traceback >>

Next ==
  \/ CheckFilters
  \/ ResolveEvent
  \/ ParseFilters
  \/ ResolveMergeBase
  \/ DiffAgainstBase
  \/ CheckParent
  \/ RunDiff
  \/ IterateNone
  \/ EvaluateFilter
  \/ EmitChanges

Spec == Init /\ [][Next]_vars

\* main has ended, one way or another
Terminated == pc \in { "done", "exited", "crashed" }

(***************************************************************************)
(* Claims about the orchestrator, properties of Spec.                      *)
(***************************************************************************)
\* the loop over filters.items() has evaluated at least one filter
HasEvaluated ==
  pc \in { "match", "done" } /\ filters.kind = "dict" /\ position >= 2

\* the filter evaluated last
EvaluatedFilter == filters.items[position - 1]

\* the git calls of the run that ran `git diff`
DiffCalls == { k \in 1..Len(git_calls) : git_calls[k].cmd = "diff" }
DiffSucceeded == \E k \in DiffCalls : git_calls[k].ok
DiffFailed == \E k \in DiffCalls : ~git_calls[k].ok
MergeBaseFailed ==
  \E k \in 1..Len(git_calls) : git_calls[k].cmd = "merge-base" /\ ~git_calls[k].ok

\* get_commits has chosen its diff
DiffChosen == cmd # << >>

\* the elements of a sequence
Range(s) == { s[k] : k \in 1..Len(s) }

\* the count output written last
LastCount ==
  LET ks == { k \in 1..Len(outputs) : outputs[k].suffix = "_count" }
  IN  outputs[CHOOSE k \in ks : \A m \in ks : m <= k]

\* C3: the matched-file list of a filter holds no path twice, holds only
\* paths of the changed-path list, and the count reported for the filter is
\* the length of the list.
C3_MatchedFilesUniqueSubset ==
  HasEvaluated =>
    /\ \A i, j \in 1..Len(matched_files) :
          i # j => matched_files[i] # matched_files[j]
    /\ Range(matched_files) \subseteq Range(changed_files)
    /\ LastCount.filter = EvaluatedFilter.name
    /\ LastCount.count = Len(matched_files)

\* C3 witness: a filter whose two patterns accept the same path, against a
\* changed-path list that repeats the path, has been evaluated.
C3_Witness ==
  /\ HasEvaluated
  /\ EvaluatedFilter.value = List(<< << "*", "*" >>, << "a", "*" >> >>)
  /\ changed_files = << << "a" >>, << "a" >> >>
  /\ matched_files = << << "a" >> >>

\* the changed paths some pattern accepts, each at its first occurrence
RECURSIVE EncounterOrder(_, _, _, _)
EncounterOrder(patterns, files, k, acc) ==
  IF k > Len(files) THEN acc
  ELSE EncounterOrder(patterns, files, k + 1,
         IF /\ \E i \in 1..Len(patterns) : Match(glob_to_regex(patterns[i]), files[k])
            /\ files[k] \notin Range(acc)
           THEN Append(acc, files[k]) ELSE acc)

\* C4: the matched-file list holds the matched paths in the order of their
\* first occurrence in the changed-path list, whatever the order of the
\* filter's patterns.
C4_EncounterOrder ==
  HasEvaluated =>
    matched_files =
      EncounterOrder(PatternList(EvaluatedFilter.value), changed_files, 1, << >>)

\* main is past the resolution of base and ref
Resolved ==
  /\ pc \notin { "idle", "check_filters", "resolve" }
  /\ error_message # "filters input is required"

\* the arguments of every git command run so far
GitArguments == UNION { Range(git_calls[k].args) : k \in 1..Len(git_calls) }

\* C5: for a pull_request event base and ref are the payload's base and head
\* commit, whatever the explicit inputs, and no explicit input reaches git.
C5_PullRequestUsesPayload ==
  (Resolved /\ event_name = "pull_request") =>
    /\ base = event.pr_base_sha
    /\ ref = event.pr_head_sha
    /\ GitArguments \cap ((ExplicitBases \cup ExplicitRefs) \ { "" }) = { }

\* C5 witness: a pull_request run given a wrong explicit base and an explicit
\* ref has diffed merge-base to the payload's head and ended.
C5_Witness ==
  /\ event_name = "pull_request"
  /\ input_base = "wrong_base" /\ input_ref = "input_ref"
  /\ pc = "done"
  /\ \E k \in DiffCalls : git_calls[k].args = << MERGE_BASE, "pr_head" >>

\* C6: for a push event ref is the explicit ref if given, else the current
\* commit, and base is the explicit base if given, else the previous commit
\* unless that is missing or the all-zero placeholder, else empty; for any
\* other event but pull_request base and ref are the explicit inputs.
C6_PushAndOtherResolution ==
  /\ (Resolved /\ event_name = "push") =>
       /\ ref = (IF input_ref # "" THEN input_ref ELSE GITHUB_SHA)
       /\ base = (IF input_base # "" THEN input_base
                  ELSE IF event.before \notin { None, "", NULL_SHA }
                         THEN event.before
                  ELSE "")
  /\ (Resolved /\ event_name \notin { "push", "pull_request" }) =>
       (base = input_base /\ ref = input_ref)

\* C6 witness: a push without explicit inputs took the previous commit as
\* base and the current commit as ref.
C6_Witness ==
  /\ event_name = "push" /\ input_base = "" /\ input_ref = ""
  /\ pc = "get_commits"
  /\ base = "before_sha" /\ ref = "github_sha"

\* C7: with base and ref both non-empty the merge-base is asked for first and
\* the diff is merge-base..ref; when the lookup fails the diff base..ref is
\* attempted next, and when that diff succeeds the run ends successfully.
C7_MergeBaseFallback ==
  (DiffChosen /\ Truthy(base) /\ Truthy(ref)) =>
    /\ git_calls[1].cmd = "merge-base" /\ git_calls[1].args = << base, ref >>
    /\ cmd = (IF git_calls[1].ok THEN << MERGE_BASE, ref >> ELSE << base, ref >>)
    /\ (Len(git_calls) = 1 => pc = "run_diff")
    /\ (Len(git_calls) >= 2 =>
          git_calls[2].cmd = "diff" /\ git_calls[2].args = cmd)
    /\ (MergeBaseFailed /\ DiffSucceeded) => pc \in { "match", "done" }
    /\ (MergeBaseFailed /\ DiffSucceeded /\ Terminated) => exit_status = 0

\* a push that created the branch, with no explicit base
RootPush == event_name = "push" /\ event.before = NULL_SHA /\ input_base = ""

\* C8: for a push whose previous commit is the all-zero placeholder and with
\* no explicit base, the diff is empty tree..HEAD when HEAD has no parent and
\* HEAD^..HEAD when it has one, whatever ref was resolved.
C8_RootCommitDiff ==
  (RootPush /\ DiffChosen) =>
    /\ cmd = (IF head_has_parent THEN << "HEAD^", "HEAD" >>
              ELSE << EMPTY_TREE, "HEAD" >>)
    /\ \A k \in DiffCalls : git_calls[k].args = cmd

\* C8 witness: such a push on a root commit, with a ref resolved from the
\* event, has diffed the empty tree against HEAD and ended.
C8_Witness ==
  /\ RootPush /\ ~head_has_parent /\ ref = "github_sha"
  /\ pc = "done"
  /\ \E k \in DiffCalls : git_calls[k].args = << EMPTY_TREE, "HEAD" >> /\ git_calls[k].ok

\* C9: when the diff fails the run ends with status 1 and the error message
\* and has emitted no output; an output is emitted only after a diff that
\* succeeded.
C9_NoOutputOnFailedDiff ==
  /\ DiffFailed =>
       /\ pc = "exited" /\ exit_status = 1
       /\ error_message = "Failed to get changed files"
       /\ outputs = << >>
  /\ outputs # << >> => (DiffSucceeded /\ ~DiffFailed)

\* C9 witness: a run whose merge-base lookup and whose direct diff both
\* failed has ended.
C9_Witness ==
  /\ MergeBaseFailed /\ DiffFailed
  /\ pc = "exited" /\ exit_status = 1

\* the declaration is missing, blank, or declares no filter
DeclaresNoFilter(doc) ==
  \/ doc.fmt = "text" /\ Strip(Text(doc.lines)) = << >>
  \/ doc.fmt = "json" /\ doc.obj = << >>

\* C10: a run whose filter declaration is missing or empty ends with the
\* failure status and an error message; a run ends successfully only when
\* a filter is declared and the diff succeeded.
C10_EmptyDeclarationFails ==
  Terminated =>
    /\ DeclaresNoFilter(filters_input) =>
         (exit_status = 1 /\ (error_message # "" \/ traceback # ""))
    /\ exit_status = 0 => (~DeclaresNoFilter(filters_input) /\ DiffSucceeded)

(***************************************************************************)
(* Claims about glob_to_regex, properties of GlobSpec.                     *)
(***************************************************************************)
\* C1: for a pattern of literal and `**` segments the compiled expression
\* accepts a path iff the path is the pattern with every `**` replaced by
\* zero or more complete path segments.
C1_RecursiveSegments ==
  (glob_pc = "matched" /\ IsRecursiveLiteral(glob_pattern))
    => (glob_accepted = ExpandsTo(Split(glob_pattern), Split(glob_path)))

\* C2: for a pattern without a `**` segment an accepted path has exactly as
\* many separators as the pattern: `*` and `?` never consume a '/'.
C2_WildcardsStayInSegment ==
  (glob_pc = "matched" /\ HasNoRecursiveSegment(glob_pattern) /\ glob_accepted)
    => (CountSlash(glob_path) = CountSlash(glob_pattern))

(***************************************************************************)
(* DiffSpec: get_commits reading what the diff wrote, lines 79-80.         *)
(***************************************************************************)
StdoutChars == { "a", "b", " ", "\n" }
Stdouts == SeqsUpTo(StdoutChars, MaxStdoutLen)

DiffInit ==
  /\ MainIdle
  /\ GlobIdle
  /\ diff_pc = "run"
  /\ diff_stdout \in Stdouts
  /\ diff_returned = << >>

\* output = run_command(cmd, cwd); return [line.strip() for ... if line.strip()]
ReturnChangedFiles ==
  /\ diff_pc = "run"
  /\ diff_returned' = ChangedFilesOf(diff_stdout)
  /\ diff_pc' = "returned"
  /\ UNCHANGED << diff_stdout, glob_vars, input_vars, main_vars >>

DiffNext == ReturnChangedFiles

DiffSpec == DiffInit /\ [][DiffNext]_vars

\* the lines of a text, stripped
StrippedLines(text) == { Strip(l) : l \in Range(SplitLines(text)) }

\* C11: the list get_commits returns holds no blank entry and no path twice,
\* and every entry is a printed line with its surrounding whitespace removed.
C11_ChangedFilesDeduplicated ==
  diff_pc = "returned" =>
    /\ \A k \in 1..Len(diff_returned) : diff_returned[k] # << >>
    /\ \A i, j \in 1..Len(diff_returned) :
          i # j => diff_returned[i] # diff_returned[j]
    /\ Range(diff_returned) \subseteq StrippedLines(diff_stdout)

(***************************************************************************)
(* What does hold where C1, C2, C4, C7, C10 and C11 fail.                       *)
(***************************************************************************)
\* `**` segments that are not adjacent each stand for zero or more segments
RecursiveSegmentsApart ==
  (glob_pc = "matched" /\ IsRecursiveLiteral(glob_pattern)
     /\ ~HasAdjacentRecursive(glob_pattern))
    => (glob_accepted = ExpandsTo(Split(glob_pattern), Split(glob_path)))

\* `*` never consumes a separator
StarStaysInSegment ==
  (glob_pc = "matched" /\ HasNoRecursiveSegment(glob_pattern) /\ glob_accepted
     /\ "?" \notin Range(glob_pattern))
    => (CountSlash(glob_path) = CountSlash(glob_pattern))

\* a filter of one pattern lists its matches in encounter order
SinglePatternEncounterOrder ==
  (HasEvaluated /\ Len(PatternList(EvaluatedFilter.value)) = 1)
    => C4_EncounterOrder

\* the fallback ends successfully unless the declaration parsed to None
FallbackEndsWellWithFilters ==
  filters.kind = "dict" => C7_MergeBaseFallback

\* the empty string is rejected before anything else is done
EmptyStringRejected ==
  (Terminated /\ IsEmptyString(filters_input))
    => /\ pc = "exited" /\ exit_status = 1
       /\ error_message = "filters input is required"
       /\ git_calls = << >> /\ outputs = << >>

\* the returned list is the printed lines in order, stripped, blanks dropped
ChangedFilesStrippedNonBlank ==
  diff_pc = "returned" =>
    /\ \A k \in 1..Len(diff_returned) :
          diff_returned[k] # << >> /\ Strip(diff_returned[k]) = diff_returned[k]
    /\ Range(diff_returned) = StrippedLines(diff_stdout) \ { << >> }

====
